---- MODULE Spec2Model ----
(***************************************************************************)
(* Order / payment / inventory workflow of the e-commerce backend          *)
(* (src/src/controller/Order.ts, src/src/controller/Cart.ts,               *)
(* src/src/utils/Esewa.ts).                                                *)
(*                                                                         *)
(* The database is a MongoDB deployment with multi-document transactions:  *)
(* a handler that opens a session and a transaction reads from the         *)
(* snapshot taken at its first read, sees its own writes, and a write to a *)
(* document that another transaction wrote after that snapshot (or holds   *)
(* uncommitted) fails with a write conflict, which aborts the transaction. *)
(* Handlers without a session read and save documents directly.            *)
(***************************************************************************)
EXTENDS Integers, Sequences, FiniteSets, TLC

\* ------------------------------------------------------------------ bounds
MaxStock == 2
MaxOrders == 1

\* ------------------------------------------------------------ finite sets
Products == {"A", "B"}
Users == {"u1"}
Txns == {1}
None == "none"

PaymentMethods == {"CASH_ON_DELIVERY", "ESEWA"}
validStatuses == {"PENDING", "CONFIRMED", "DELIVERED", "CANCELLED"}
\* order statuses a PUT /:orderId/status body can carry: the valid ones and another
RequestedStatuses == validStatuses \cup {"SHIPPED"}
\* gateway status vocabulary answered by the status endpoint; "THROW" stands
\* for the request failing or timing out (checkEsewaPaymentStatus rethrows)
PollStatuses == {"COMPLETE", "PENDING", "CANCELED", "NOT_FOUND"}
PollOutcomes == PollStatuses \cup {"THROW"}
CallbackStatuses == {"COMPLETE", "CANCELED"}

\* catalogue price of a product when the run starts
Price(p) == IF p = "A" THEN 2 ELSE 3
TaxAmounts == {1}
DeliveryCharges == {2}
\* total_amount values a callback may carry
CallbackAmounts == {5}

\* ------------------------------------------------------ Esewa.ts (crypto)
MERCHANT_CODE == "EPAYTEST"
SECRET_KEY == "8gBm/:&EnhH.1/q"
ForgedKey == "attacker-key"
TransactionCode == "TC"
RefId == "REF"
CallbackFieldNames == "transaction_code,status,total_amount,transaction_uuid,product_code,signed_field_names"

\* HMAC-SHA256/base64 as an injective function of key and message
Hmac(key, message) == <<key, message>>

\* the message verifyEsewaSignature builds: a fixed field order
VerifyMessage(transactionCode, status, totalAmount, transactionUuid, productCode, signedFieldNames) ==
  <<"transaction_code", transactionCode, "status", status, "total_amount", totalAmount,
    "transaction_uuid", transactionUuid, "product_code", productCode,
    "signed_field_names", signedFieldNames>>

\* verifyEsewaSignature that only checks which key made the signature
verifyEsewaSignatureKeyOnly(transactionCode, status, totalAmount, transactionUuid, productCode, signedFieldNames, receivedSignature) ==
  receivedSignature[1] = SECRET_KEY

verifyEsewaSignature(transactionCode, status, totalAmount, transactionUuid, productCode, signedFieldNames, receivedSignature) ==
  Hmac(SECRET_KEY, VerifyMessage(transactionCode, status, totalAmount, transactionUuid, productCode, signedFieldNames))
    = receivedSignature

\* what the gateway signs for a callback it really issued
GatewaySignature(status, totalAmount, uuid) ==
  Hmac(SECRET_KEY, VerifyMessage(TransactionCode, status, totalAmount, uuid, MERCHANT_CODE, CallbackFieldNames))

\* Esewa.ts lines 17-27: the request signature, over three fields in a fixed
\* order (amounts are written in decimal on both sides)
RequestMessage(totalAmount, transactionUuid, productCode) ==
  <<"total_amount", totalAmount, "transaction_uuid", transactionUuid, "product_code", productCode>>
generateEsewaSignature(totalAmount, transactionUuid, productCode) ==
  Hmac(SECRET_KEY, RequestMessage(totalAmount, transactionUuid, productCode))
RequestFieldNames == "total_amount,transaction_uuid,product_code"
ReorderedFieldNames == "transaction_uuid,total_amount,product_code"

\* Esewa.ts lines 92-117: the signed part of the payment form, laid out as
\* the fields verifyEsewaSignature takes (a form has no transaction_code and
\* no status)
prepareEsewaPaymentData(amount, taxAmount, deliveryCharge, transactionUuid, productCode) ==
  LET totalAmount == amount + taxAmount + deliveryCharge IN
    [transaction_code |-> None,
     status |-> None,
     total_amount |-> totalAmount,
     transaction_uuid |-> transactionUuid,
     product_code |-> productCode,
     signed_field_names |-> RequestFieldNames,
     signature |-> generateEsewaSignature(totalAmount, transactionUuid, productCode)]

\* callback payloads that can reach the public success URL: issued by the
\* gateway ("valid"), with the status field altered after signing
\* ("tampered"), or signed with a key that is not the shared secret ("forged")
SigKinds == {"valid", "tampered", "forged"}
OtherStatus(s) == IF s = "COMPLETE" THEN "CANCELED" ELSE "COMPLETE"
Payload(status, totalAmount, uuid, kind) ==
  [transaction_code |-> TransactionCode,
   status |-> status,
   total_amount |-> totalAmount,
   transaction_uuid |-> uuid,
   product_code |-> MERCHANT_CODE,
   signed_field_names |-> CallbackFieldNames,
   signature |->
     CASE kind = "valid" -> GatewaySignature(status, totalAmount, uuid)
       [] kind = "tampered" -> GatewaySignature(OtherStatus(status), totalAmount, uuid)
       [] OTHER -> Hmac(ForgedKey, VerifyMessage(TransactionCode, status, totalAmount, uuid, MERCHANT_CODE, CallbackFieldNames))]
NoPayload == Payload("CANCELED", 0, 0, "forged")

PayloadValid(pl) ==
  verifyEsewaSignature(pl.transaction_code, pl.status, pl.total_amount, pl.transaction_uuid,
                       pl.product_code, pl.signed_field_names, pl.signature)

\* --------------------------------------------------------------- helpers
RECURSIVE SumQty(_, _)
\* total quantity of product p over a list of line items
SumQty(items, p) ==
  IF items = <<>> THEN 0
  ELSE (IF Head(items).product = p THEN Head(items).quantity ELSE 0) + SumQty(Tail(items), p)

RECURSIVE SumPrice(_)
SumPrice(items) ==
  IF items = <<>> THEN 0
  ELSE Head(items).price * Head(items).quantity + SumPrice(Tail(items))

\* documents of the database, as units of write conflict
ProductDoc(p) == <<"product", p, 0>>
CartDoc(u) == <<"cart", u, 0>>
OrderDoc(id) == <<"order", "", id>>
\* the product documents a list of line items refers to
ItemDocs(items) == {ProductDoc(items[i].product) : i \in 1..Len(items)}

VARIABLES
  stock,    \* Product.stock of every product (committed)
  cart,     \* Cart.items of every user (committed); <<>> = absent or empty
  orders,   \* the Order collection (committed), in creation order
  txn,      \* the open session/transaction of every request slot
  dirty,    \* per open transaction: documents committed by others since its snapshot
  price     \* Product.price of every product (committed)

vars == <<stock, cart, orders, txn, dirty, price>>

\* fields a handler assigns on the order document before order.save();
\* Keep leaves the stored value as it is
Keep == "keep"
NoUpdate ==
  [paymentStatus |-> Keep, orderStatus |-> Keep, esewaTransactionCode |-> Keep,
   esewaRefId |-> Keep, esewaSignature |-> <<Keep, <<>>>>]
Assign(old, new) == IF new = Keep THEN old ELSE new
ApplyUpdate(o, u) ==
  [o EXCEPT !.paymentStatus = Assign(@, u.paymentStatus),
            !.orderStatus = Assign(@, u.orderStatus),
            !.esewaTransactionCode = Assign(@, u.esewaTransactionCode),
            !.esewaRefId = Assign(@, u.esewaRefId),
            !.esewaSignature = IF u.esewaSignature[1] = Keep THEN @ ELSE u.esewaSignature]

IdleTxn ==
  [pc |-> "idle", op |-> None, user |-> None, method |-> None, items |-> <<>>,
   tax |-> 0, delivery |-> 0, snapStock |-> [p \in Products |-> 0], order |-> 0,
   payload |-> NoPayload, snapCart |-> FALSE, wstock |-> [p \in Products |-> 0], wcart |-> FALSE,
   worder |-> NoUpdate, wdocs |-> {}, res |-> 0]

Active(t) == txn[t].pc \in {"open", "written"}
\* document d is held by an uncommitted write of a transaction other than t
Locked(d, t) == \E t2 \in DOMAIN txn \ {t} : txn[t2].pc = "written" /\ d \in txn[t2].wdocs
\* a write by transaction t to any of the documents D raises WriteConflict
WriteConflict(t, D) == \E d \in D : d \in dirty[t] \/ Locked(d, t)
\* the documents transaction t has read and may write
Touches(t) ==
  ItemDocs(txn[t].items) \cup {CartDoc(txn[t].user)}
    \cup (IF txn[t].order # 0 THEN {OrderDoc(txn[t].order)} ELSE {})
\* a committed write to documents D is seen as a change by every open
\* transaction that works on one of them
MarkDirty(t, D) ==
  [t2 \in DOMAIN txn |->
     IF t2 # t /\ Active(t2) THEN dirty[t2] \cup (D \cap Touches(t2)) ELSE dirty[t2]]
\* the transaction of t is over (commitTransaction or abortTransaction): its snapshot is gone
EndTransaction(d, t) == [d EXCEPT ![t] = {}]
\* a plain (sessionless) write to d waits while a transaction holds d
Free(d) == ~ \E t \in DOMAIN txn : txn[t].pc = "written" /\ d \in txn[t].wdocs

\* the first session slot that has no transaction in progress
FirstFree(t) == ~Active(t) /\ \A t2 \in DOMAIN txn : ~Active(t2) => t <= t2
\* the request is over and its response (HTTP status) was sent; 500 is what
\* the error middleware answers after next(error)
Done(op, res) == [IdleTxn EXCEPT !.pc = "done", !.op = op, !.res = res]

PendingCreates == Cardinality({t \in DOMAIN txn : Active(t) /\ txn[t].op \in {"createOrderFromCart", "createOrder"}})
\* requests that would add an order are explored up to MaxOrders documents
RoomForOrder == Len(orders) + PendingCreates < MaxOrders

\* a cart line as addToCart builds it
Line(p, q) == [product |-> p, quantity |-> q, price |-> Price(p)]
\* the cart of the customer when the orders start: one unit of each product
InitCart == <<Line("A", 1), Line("B", 1)>>

Init ==
  /\ stock = [p \in Products |-> MaxStock]
  /\ cart = [u \in Users |-> InitCart]
  /\ orders = <<>>
  /\ txn = [t \in Txns |-> IdleTxn]
  /\ dirty = [t \in Txns |-> {}]
  /\ price = [p \in Products |-> Price(p)]

\* ------------------------------------------------------------ Order.ts
\* some line asks for more than its product has
SomeLineShort(items, st) == \E i \in 1..Len(items) : st[items[i].product] < items[i].quantity

\* FirstInsufficient looking at the first line only
FirstInsufficientHeadOnly(items, st) ==
  IF items # <<>> /\ st[items[1].product] < items[1].quantity THEN 1 ELSE 0

\* first line item whose product has less stock than the line asks for, 0 if none
FirstInsufficient(items, st) ==
  IF \E i \in 1..Len(items) : st[items[i].product] < items[i].quantity
  THEN CHOOSE i \in 1..Len(items) :
         /\ st[items[i].product] < items[i].quantity
         /\ \A j \in 1..(i-1) : st[items[j].product] >= items[j].quantity
  ELSE 0

RECURSIVE DecrementLoopSkipsShort(_, _, _)
\* DecrementLoop that passes over a line whose product is short of stock
DecrementLoopSkipsShort(view, items, n) ==
  IF items = <<>> THEN [ok |-> TRUE, view |-> view, n |-> n]
  ELSE LET it == Head(items)
           v == view[it.product] - it.quantity
       IN IF v < 0 THEN DecrementLoopSkipsShort(view, Tail(items), n + 1)
          ELSE DecrementLoopSkipsShort([view EXCEPT ![it.product] = v], Tail(items), n + 1)

RECURSIVE DecrementLoopNoMin(_, _, _)
\* DecrementLoop without the min: 0 validator on ProductSchema.stock
DecrementLoopNoMin(view, items, n) ==
  IF items = <<>> THEN [ok |-> TRUE, view |-> view, n |-> n]
  ELSE LET it == Head(items)
       IN DecrementLoopNoMin([view EXCEPT ![it.product] = @ - it.quantity], Tail(items), n + 1)

RECURSIVE DecrementLoop(_, _, _)
\* for (item of items) { product.stock -= item.quantity; await product.save() }
\* run against the transaction's view of the stock; save() validates
\* ProductSchema.stock (min: 0) and throws on a negative value; n counts the
\* products saved before the loop ended
DecrementLoop(view, items, n) ==
  IF items = <<>> THEN [ok |-> TRUE, view |-> view, n |-> n]
  ELSE LET it == Head(items)
           v == view[it.product] - it.quantity
       IN IF v < 0 THEN [ok |-> FALSE, view |-> view, n |-> n]
          ELSE DecrementLoop([view EXCEPT ![it.product] = v], Tail(items), n + 1)

\* NewOrder whose grand total leaves the delivery charge out
NewOrderNoDelivery(t, id) ==
  LET x == txn[t]
      totalAmount == SumPrice(x.items)
  IN [user |-> x.user,
      items |-> x.items,
      paymentMethod |-> x.method,
      paymentStatus |-> "PENDING",
      orderStatus |-> IF x.method = "CASH_ON_DELIVERY" THEN "CONFIRMED" ELSE "PENDING",
      totalAmount |-> totalAmount,
      taxAmount |-> x.tax,
      deliveryCharge |-> x.delivery,
      grandTotal |-> totalAmount + x.tax,
      esewaTransactionUuid |-> IF x.method = "ESEWA" THEN id ELSE 0,
      esewaTransactionCode |-> None,
      esewaRefId |-> None,
      esewaSignature |-> <<None, <<>>>>]

\* NewOrder that stores every order as CONFIRMED from the start
NewOrderConfirmed(t, id) ==
  LET x == txn[t]
      totalAmount == SumPrice(x.items)
  IN [user |-> x.user,
      items |-> x.items,
      paymentMethod |-> x.method,
      paymentStatus |-> "PENDING",
      orderStatus |-> "CONFIRMED",
      totalAmount |-> totalAmount,
      taxAmount |-> x.tax,
      deliveryCharge |-> x.delivery,
      grandTotal |-> totalAmount + x.tax + x.delivery,
      esewaTransactionUuid |-> IF x.method = "ESEWA" THEN id ELSE 0,
      esewaTransactionCode |-> None,
      esewaRefId |-> None,
      esewaSignature |-> <<None, <<>>>>]

\* lines 93-117 (and 139-140 for cash): the order document as it is committed
NewOrder(t, id) ==
  LET x == txn[t]
      totalAmount == SumPrice(x.items)
  IN [user |-> x.user,
      items |-> x.items,
      paymentMethod |-> x.method,
      paymentStatus |-> "PENDING",
      orderStatus |-> IF x.method = "CASH_ON_DELIVERY" THEN "CONFIRMED" ELSE "PENDING",
      totalAmount |-> totalAmount,
      taxAmount |-> x.tax,
      deliveryCharge |-> x.delivery,
      grandTotal |-> totalAmount + x.tax + x.delivery,
      esewaTransactionUuid |-> IF x.method = "ESEWA" THEN id ELSE 0,
      esewaTransactionCode |-> None,
      esewaRefId |-> None,
      esewaSignature |-> <<None, <<>>>>]

\* lines 16-91: start the session, read the cart and check every line's stock
createOrderFromCartBegin(t, userId, paymentMethod, taxAmount, deliveryCharge) ==
  /\ ~Active(t)
  /\ LET items == cart[userId]
         base == [IdleTxn EXCEPT !.op = "createOrderFromCart", !.user = userId,
                                 !.method = paymentMethod]
     IN txn' = [txn EXCEPT ![t] =
          IF items = <<>> THEN Done("createOrderFromCart", 400)
          ELSE IF FirstInsufficient(items, stock) # 0
               THEN Done("createOrderFromCart", 400)
               ELSE [base EXCEPT !.pc = "open", !.items = items, !.tax = taxAmount,
                                 !.delivery = deliveryCharge, !.snapStock = stock,
                                 !.wstock = stock]]
  /\ dirty' = [dirty EXCEPT ![t] = {}]
  /\ UNCHANGED <<stock, cart, orders, price>>

\* createOrderFromCartWrite that leaves the cart as it is
createOrderFromCartWriteKeepsCart(t) ==
  /\ txn[t].pc = "open"
  /\ txn[t].op = "createOrderFromCart"
  /\ LET x == txn[t]
         docs == IF x.method = "CASH_ON_DELIVERY" THEN ItemDocs(x.items) ELSE {}
         loop == DecrementLoop(x.snapStock, x.items, 0)
     IN txn' = [txn EXCEPT ![t] =
          IF x.method # "CASH_ON_DELIVERY" THEN [x EXCEPT !.pc = "written"]
          ELSE IF WriteConflict(t, docs) THEN Done("createOrderFromCart", 500)
          ELSE IF ~loop.ok THEN Done("createOrderFromCart", 500)
          ELSE [x EXCEPT !.pc = "written", !.wstock = loop.view, !.wdocs = docs]]
  /\ dirty' = IF txn'[t].pc = "done" THEN EndTransaction(dirty, t) ELSE dirty
  /\ UNCHANGED <<stock, cart, orders, price>>

\* lines 119-141: insert the order; for cash, decrement every product and clear the cart
createOrderFromCartWrite(t) ==
  /\ txn[t].pc = "open"
  /\ txn[t].op = "createOrderFromCart"
  /\ LET x == txn[t]
         docs == IF x.method = "CASH_ON_DELIVERY"
                 THEN ItemDocs(x.items) \cup {CartDoc(x.user)} ELSE {}
         loop == DecrementLoop(x.snapStock, x.items, 0)
     IN txn' = [txn EXCEPT ![t] =
          IF x.method # "CASH_ON_DELIVERY" THEN [x EXCEPT !.pc = "written"]
          ELSE IF WriteConflict(t, docs) THEN Done("createOrderFromCart", 500)
          ELSE IF ~loop.ok THEN Done("createOrderFromCart", 500)
          ELSE [x EXCEPT !.pc = "written", !.wstock = loop.view, !.wcart = TRUE, !.wdocs = docs]]
  /\ dirty' = IF txn'[t].pc = "done" THEN EndTransaction(dirty, t) ELSE dirty
  /\ UNCHANGED <<stock, cart, orders, price>>

\* lines 143-144: commitTransaction makes the order, the stock and the cart visible together
createOrderFromCartCommit(t) ==
  /\ txn[t].pc = "written"
  /\ txn[t].op = "createOrderFromCart"
  /\ LET x == txn[t] IN
       /\ orders' = Append(orders, NewOrder(t, Len(orders) + 1))
       /\ stock' = [p \in Products |-> IF ProductDoc(p) \in x.wdocs THEN x.wstock[p] ELSE stock[p]]
       /\ cart' = IF x.wcart THEN [cart EXCEPT ![x.user] = <<>>] ELSE cart
       /\ txn' = [txn EXCEPT ![t] = Done("createOrderFromCart", 201)]
       /\ dirty' = EndTransaction(MarkDirty(t, x.wdocs), t)
       /\ UNCHANGED price

\* Order.findOne({ esewaTransactionUuid }): first order carrying the uuid, 0 if none
FindByUuid(uuid) ==
  IF \E i \in 1..Len(orders) : orders[i].esewaTransactionUuid = uuid
  THEN CHOOSE i \in 1..Len(orders) :
         /\ orders[i].esewaTransactionUuid = uuid
         /\ \A j \in 1..(i-1) : orders[j].esewaTransactionUuid # uuid
  ELSE 0

\* lines 198-248: decode, verify the signature, then look the order up
handleEsewaSuccessBegin(t, pl) ==
  /\ ~Active(t)
  /\ LET id == FindByUuid(pl.transaction_uuid) IN
       txn' = [txn EXCEPT ![t] =
            IF ~PayloadValid(pl) THEN Done("handleEsewaSuccess", 400)
            ELSE IF id = 0 THEN Done("handleEsewaSuccess", 404)
            ELSE [IdleTxn EXCEPT !.pc = "open", !.op = "handleEsewaSuccess",
                                 !.user = orders[id].user, !.items = orders[id].items,
                                 !.order = id, !.payload = pl, !.snapStock = stock,
                                 !.wstock = stock, !.snapCart = (cart[orders[id].user] # <<>>)]]
  /\ dirty' = [dirty EXCEPT ![t] = {}]
  /\ UNCHANGED <<stock, cart, orders, price>>

\* lines 268-275 and, after an exception in the try block, lines 298-305:
\* the stock part of a confirmation. A save that fails validation inside the
\* try block (poll = COMPLETE) lands in the catch block, which runs the loop
\* again on the transaction's current view.
ReduceStock(snap, items, poll) ==
  LET l1 == DecrementLoop(snap, items, 0)
      l2 == DecrementLoop(l1.view, items, 0)
  IN IF l1.ok THEN [ok |-> TRUE, view |-> l1.view, saved |-> items]
     ELSE IF poll = "COMPLETE" /\ l2.ok
          THEN [ok |-> TRUE, view |-> l2.view, saved |-> items]
          ELSE [ok |-> FALSE, view |-> snap, saved |-> SubSeq(items, 1, l1.n)]

\* handleEsewaSuccessWrite that confirms on the callback's status alone,
\* whatever the poll answers
handleEsewaSuccessWriteTrustsCallback(t, poll) ==
  /\ txn[t].pc = "open"
  /\ txn[t].op = "handleEsewaSuccess"
  /\ LET x == txn[t]
         pl == x.payload
         confirm == pl.status = "COMPLETE"
         r == ReduceStock(x.snapStock, x.items, poll)
         cartDocs == IF x.snapCart THEN {CartDoc(x.user)} ELSE {}
         paid == [paymentStatus |-> "PAID", orderStatus |-> "CONFIRMED",
                  esewaTransactionCode |-> pl.transaction_code,
                  esewaRefId |-> IF poll = "COMPLETE" THEN RefId ELSE Keep,
                  esewaSignature |-> pl.signature]
         failed == [NoUpdate EXCEPT !.paymentStatus = "FAILED", !.orderStatus = "CANCELLED"]
     IN txn' = [txn EXCEPT ![t] =
          IF confirm
          THEN IF WriteConflict(t, ItemDocs(r.saved)) THEN Done("handleEsewaSuccess", 500)
               ELSE IF ~r.ok THEN Done("handleEsewaSuccess", 500)
               ELSE IF WriteConflict(t, cartDocs \cup {OrderDoc(x.order)}) THEN Done("handleEsewaSuccess", 500)
               ELSE [x EXCEPT !.pc = "written", !.wstock = r.view, !.wcart = x.snapCart,
                              !.worder = paid,
                              !.wdocs = ItemDocs(x.items) \cup cartDocs \cup {OrderDoc(x.order)}]
          ELSE IF WriteConflict(t, {OrderDoc(x.order)}) THEN Done("handleEsewaSuccess", 500)
               ELSE [x EXCEPT !.pc = "written", !.worder = failed, !.wdocs = {OrderDoc(x.order)}]]
  /\ dirty' = IF txn'[t].pc = "done" THEN EndTransaction(dirty, t) ELSE dirty
  /\ UNCHANGED <<stock, cart, orders, price>>

\* handleEsewaSuccessWrite that treats an unreachable poll as a refusal
handleEsewaSuccessWriteFailsOnThrow(t, poll) ==
  /\ txn[t].pc = "open"
  /\ txn[t].op = "handleEsewaSuccess"
  /\ LET x == txn[t]
         pl == x.payload
         confirm == pl.status = "COMPLETE" /\ poll = "COMPLETE"
         r == ReduceStock(x.snapStock, x.items, poll)
         cartDocs == IF x.snapCart THEN {CartDoc(x.user)} ELSE {}
         paid == [paymentStatus |-> "PAID", orderStatus |-> "CONFIRMED",
                  esewaTransactionCode |-> pl.transaction_code,
                  esewaRefId |-> IF poll = "COMPLETE" THEN RefId ELSE Keep,
                  esewaSignature |-> pl.signature]
         failed == [NoUpdate EXCEPT !.paymentStatus = "FAILED", !.orderStatus = "CANCELLED"]
     IN txn' = [txn EXCEPT ![t] =
          IF confirm
          THEN IF WriteConflict(t, ItemDocs(r.saved)) THEN Done("handleEsewaSuccess", 500)
               ELSE IF ~r.ok THEN Done("handleEsewaSuccess", 500)
               ELSE IF WriteConflict(t, cartDocs \cup {OrderDoc(x.order)}) THEN Done("handleEsewaSuccess", 500)
               ELSE [x EXCEPT !.pc = "written", !.wstock = r.view, !.wcart = x.snapCart,
                              !.worder = paid,
                              !.wdocs = ItemDocs(x.items) \cup cartDocs \cup {OrderDoc(x.order)}]
          ELSE IF WriteConflict(t, {OrderDoc(x.order)}) THEN Done("handleEsewaSuccess", 500)
               ELSE [x EXCEPT !.pc = "written", !.worder = failed, !.wdocs = {OrderDoc(x.order)}]]
  /\ dirty' = IF txn'[t].pc = "done" THEN EndTransaction(dirty, t) ELSE dirty
  /\ UNCHANGED <<stock, cart, orders, price>>

\* lines 250-319: cross-check with the gateway, then stage the order fields,
\* the stock decrements and the cart clearing in the transaction
handleEsewaSuccessWrite(t, poll) ==
  /\ txn[t].pc = "open"
  /\ txn[t].op = "handleEsewaSuccess"
  /\ LET x == txn[t]
         pl == x.payload
         confirm == pl.status = "COMPLETE" /\ poll \in {"COMPLETE", "THROW"}
         r == ReduceStock(x.snapStock, x.items, poll)
         cartDocs == IF x.snapCart THEN {CartDoc(x.user)} ELSE {}
         paid == [paymentStatus |-> "PAID", orderStatus |-> "CONFIRMED",
                  esewaTransactionCode |-> pl.transaction_code,
                  esewaRefId |-> IF poll = "COMPLETE" THEN RefId ELSE Keep,
                  esewaSignature |-> pl.signature]
         failed == [NoUpdate EXCEPT !.paymentStatus = "FAILED", !.orderStatus = "CANCELLED"]
     IN txn' = [txn EXCEPT ![t] =
          IF confirm
          THEN IF WriteConflict(t, ItemDocs(r.saved)) THEN Done("handleEsewaSuccess", 500)
               ELSE IF ~r.ok THEN Done("handleEsewaSuccess", 500)
               ELSE IF WriteConflict(t, cartDocs \cup {OrderDoc(x.order)}) THEN Done("handleEsewaSuccess", 500)
               ELSE [x EXCEPT !.pc = "written", !.wstock = r.view, !.wcart = x.snapCart,
                              !.worder = paid,
                              !.wdocs = ItemDocs(x.items) \cup cartDocs \cup {OrderDoc(x.order)}]
          ELSE IF WriteConflict(t, {OrderDoc(x.order)}) THEN Done("handleEsewaSuccess", 500)
               ELSE [x EXCEPT !.pc = "written", !.worder = failed, !.wdocs = {OrderDoc(x.order)}]]
  /\ dirty' = IF txn'[t].pc = "done" THEN EndTransaction(dirty, t) ELSE dirty
  /\ UNCHANGED <<stock, cart, orders, price>>

\* handleEsewaSuccessCommit that leaves the cart as it is
handleEsewaSuccessCommitKeepsCart(t) ==
  /\ txn[t].pc = "written"
  /\ txn[t].op = "handleEsewaSuccess"
  /\ LET x == txn[t] IN
       /\ orders' = [orders EXCEPT ![x.order] = ApplyUpdate(@, x.worder)]
       /\ stock' = [p \in Products |-> IF ProductDoc(p) \in x.wdocs THEN x.wstock[p] ELSE stock[p]]
       /\ cart' = cart
       /\ txn' = [txn EXCEPT ![t] = Done("handleEsewaSuccess", 200)]
       /\ dirty' = EndTransaction(MarkDirty(t, x.wdocs), t)
       /\ UNCHANGED price

\* line 320: commitTransaction
handleEsewaSuccessCommit(t) ==
  /\ txn[t].pc = "written"
  /\ txn[t].op = "handleEsewaSuccess"
  /\ LET x == txn[t] IN
       /\ orders' = [orders EXCEPT ![x.order] = ApplyUpdate(@, x.worder)]
       /\ stock' = [p \in Products |-> IF ProductDoc(p) \in x.wdocs THEN x.wstock[p] ELSE stock[p]]
       /\ cart' = IF x.wcart THEN [cart EXCEPT ![x.user] = <<>>] ELSE cart
       /\ txn' = [txn EXCEPT ![t] = Done("handleEsewaSuccess", 200)]
       /\ dirty' = EndTransaction(MarkDirty(t, x.wdocs), t)
       /\ UNCHANGED price

\* lines 340-364
handleEsewaFailure(transaction_uuid) ==
  LET id == FindByUuid(transaction_uuid) IN
    /\ id # 0
    /\ Free(OrderDoc(id))
    /\ orders' = [orders EXCEPT ![id].paymentStatus = "FAILED", ![id].orderStatus = "CANCELLED"]
    /\ dirty' = MarkDirty(0, {OrderDoc(id)})
    /\ UNCHANGED <<stock, cart, txn, price>>

\* updateOrderStatus that marks every delivered order PAID, whatever its payment method
updateOrderStatusPaidOnDelivery(orderId, orderStatus) ==
  IF orderStatus \notin validStatuses THEN UNCHANGED vars
  ELSE
  /\ orderId \in 1..Len(orders)
  /\ Free(OrderDoc(orderId))
  /\ LET o == orders[orderId]
         p1 == IF orderStatus = "DELIVERED" THEN "PAID" ELSE o.paymentStatus
         p2 == IF orderStatus = "CANCELLED" /\ p1 = "PENDING" THEN "FAILED" ELSE p1
     IN orders' = [orders EXCEPT ![orderId].orderStatus = orderStatus,
                                 ![orderId].paymentStatus = p2]
  /\ dirty' = MarkDirty(0, {OrderDoc(orderId)})
  /\ UNCHANGED <<stock, cart, txn, price>>

\* updateOrderStatus that writes the order status alone, and writes it
\* whatever the requested value is
updateOrderStatusStatusOnly(orderId, orderStatus) ==
  /\ orderId \in 1..Len(orders)
  /\ Free(OrderDoc(orderId))
  /\ orders' = [orders EXCEPT ![orderId].orderStatus = orderStatus]
  /\ dirty' = MarkDirty(0, {OrderDoc(orderId)})
  /\ UNCHANGED <<stock, cart, txn, price>>

\* lines 367-412; an order status outside validStatuses is answered 400
\* before the order is looked up
updateOrderStatus(orderId, orderStatus) ==
  IF orderStatus \notin validStatuses THEN UNCHANGED vars
  ELSE
  /\ orderId \in 1..Len(orders)
  /\ Free(OrderDoc(orderId))
  /\ LET o == orders[orderId]
         p1 == IF o.paymentMethod = "CASH_ON_DELIVERY" /\ orderStatus = "DELIVERED"
               THEN "PAID" ELSE o.paymentStatus
         p2 == IF orderStatus = "CANCELLED" /\ p1 = "PENDING" THEN "FAILED" ELSE p1
     IN orders' = [orders EXCEPT ![orderId].orderStatus = orderStatus,
                                 ![orderId].paymentStatus = p2]
  /\ dirty' = MarkDirty(0, {OrderDoc(orderId)})
  /\ UNCHANGED <<stock, cart, txn, price>>

\* checkPaymentStatus that cancels the order when the status call fails
checkPaymentStatusCancelsOnThrow(orderId, poll) ==
  /\ orderId \in 1..Len(orders)
  /\ Free(OrderDoc(orderId))
  /\ LET o == orders[orderId] IN
       IF o.paymentMethod = "ESEWA" /\ o.esewaTransactionUuid # 0
       THEN /\ orders' = [orders EXCEPT ![orderId] =
                 CASE poll = "COMPLETE" ->
                        [o EXCEPT !.paymentStatus = "PAID", !.orderStatus = "CONFIRMED",
                                  !.esewaRefId = RefId]
                   [] poll = "PENDING" -> [o EXCEPT !.paymentStatus = "PENDING"]
                   [] OTHER ->
                        [o EXCEPT !.paymentStatus = "FAILED", !.orderStatus = "CANCELLED"]]
            /\ dirty' = MarkDirty(0, {OrderDoc(orderId)})
       ELSE UNCHANGED <<orders, dirty>>
  /\ UNCHANGED <<stock, cart, txn, price>>

\* lines 415-478
checkPaymentStatus(orderId, poll) ==
  /\ orderId \in 1..Len(orders)
  /\ Free(OrderDoc(orderId))
  /\ LET o == orders[orderId] IN
       IF o.paymentMethod = "ESEWA" /\ o.esewaTransactionUuid # 0 /\ poll # "THROW"
       THEN /\ orders' = [orders EXCEPT ![orderId] =
                 CASE poll = "COMPLETE" ->
                        [o EXCEPT !.paymentStatus = "PAID", !.orderStatus = "CONFIRMED",
                                  !.esewaRefId = RefId]
                   [] poll = "PENDING" -> [o EXCEPT !.paymentStatus = "PENDING"]
                   [] poll \in {"CANCELED", "NOT_FOUND"} ->
                        [o EXCEPT !.paymentStatus = "FAILED", !.orderStatus = "CANCELLED"]
                   [] OTHER -> o]
            /\ dirty' = MarkDirty(0, {OrderDoc(orderId)})
       ELSE UNCHANGED <<orders, dirty>>
  /\ UNCHANGED <<stock, cart, txn, price>>

\* lines 452-471: the body checkPaymentStatus answers with, from the order it
\* leaves behind (the order as found, in the catch block and for other orders)
checkPaymentStatusResponse(orderId, poll) ==
  LET o == orders[orderId]
      polled == o.paymentMethod = "ESEWA" /\ o.esewaTransactionUuid # 0
      n == CASE ~polled \/ poll = "THROW" -> o
             [] poll = "COMPLETE" -> [o EXCEPT !.paymentStatus = "PAID", !.orderStatus = "CONFIRMED"]
             [] poll = "PENDING" -> [o EXCEPT !.paymentStatus = "PENDING"]
             [] poll \in {"CANCELED", "NOT_FOUND"} ->
                  [o EXCEPT !.paymentStatus = "FAILED", !.orderStatus = "CANCELLED"]
             [] OTHER -> o
  IN [message |-> IF ~polled THEN "Payment status retrieved"
                  ELSE IF poll = "THROW" THEN "Unable to check payment status"
                  ELSE "Payment status checked",
      paymentStatus |-> n.paymentStatus,
      orderStatus |-> n.orderStatus]

\* request bodies of POST /orders used here
CreateOrderItems == {<<Line("B", MaxStock)>>}

\* lines 481-544: validate the request items against the stock
createOrderBegin(t, userId, items, paymentMethod, taxAmount, deliveryCharge) ==
  /\ ~Active(t)
  /\ txn' = [txn EXCEPT ![t] =
       IF FirstInsufficient(items, stock) # 0 THEN Done("createOrder", 400)
       ELSE [IdleTxn EXCEPT !.pc = "open", !.op = "createOrder", !.user = userId,
                            !.method = paymentMethod,
                            !.items = [i \in 1..Len(items) |->
                                         [items[i] EXCEPT !.price = price[items[i].product]]],
                            !.tax = taxAmount,
                            !.delivery = deliveryCharge, !.snapStock = stock, !.wstock = stock]]
  /\ dirty' = [dirty EXCEPT ![t] = {}]
  /\ UNCHANGED <<stock, cart, orders, price>>

\* lines 566-578: insert the order; for cash, decrement every product
createOrderWrite(t) ==
  /\ txn[t].pc = "open"
  /\ txn[t].op = "createOrder"
  /\ LET x == txn[t]
         loop == DecrementLoop(x.snapStock, x.items, 0)
         docs == ItemDocs(SubSeq(x.items, 1, loop.n))
     IN txn' = [txn EXCEPT ![t] =
          IF x.method # "CASH_ON_DELIVERY" THEN [x EXCEPT !.pc = "written"]
          ELSE IF WriteConflict(t, docs) THEN Done("createOrder", 500)
          ELSE IF ~loop.ok THEN Done("createOrder", 500)
          ELSE [x EXCEPT !.pc = "written", !.wstock = loop.view, !.wdocs = docs]]
  /\ dirty' = IF txn'[t].pc = "done" THEN EndTransaction(dirty, t) ELSE dirty
  /\ UNCHANGED <<stock, cart, orders, price>>

\* line 580: commitTransaction
createOrderCommit(t) ==
  /\ txn[t].pc = "written"
  /\ txn[t].op = "createOrder"
  /\ LET x == txn[t] IN
       /\ orders' = Append(orders, NewOrder(t, Len(orders) + 1))
       /\ stock' = [p \in Products |-> IF ProductDoc(p) \in x.wdocs THEN x.wstock[p] ELSE stock[p]]
       /\ txn' = [txn EXCEPT ![t] = Done("createOrder", 201)]
       /\ dirty' = EndTransaction(MarkDirty(t, x.wdocs), t)
  /\ UNCHANGED <<cart, price>>

\* callbacks that can arrive: about an existing order or an unknown uuid
Payloads ==
  {Payload(st, amt, uuid, k) : st \in CallbackStatuses, amt \in CallbackAmounts,
                               uuid \in 1..MaxOrders, k \in SigKinds}

Next ==
  \/ \E t \in DOMAIN txn, u \in DOMAIN cart, m \in PaymentMethods, tax \in TaxAmounts, dc \in DeliveryCharges :
       /\ FirstFree(t)
       /\ RoomForOrder \/ cart[u] = <<>> \/ SomeLineShort(cart[u], stock)
       /\ createOrderFromCartBegin(t, u, m, tax, dc)
  \/ \E t \in DOMAIN txn : createOrderFromCartWrite(t)
  \/ \E t \in DOMAIN txn : createOrderFromCartCommit(t)
  \/ \E t \in DOMAIN txn, u \in DOMAIN cart, items \in CreateOrderItems, m \in PaymentMethods,
          tax \in TaxAmounts, dc \in DeliveryCharges :
       /\ FirstFree(t)
       /\ RoomForOrder \/ SomeLineShort(items, stock)
       /\ createOrderBegin(t, u, items, m, tax, dc)
  \/ \E t \in DOMAIN txn : createOrderWrite(t)
  \/ \E t \in DOMAIN txn : createOrderCommit(t)
  \/ \E t \in DOMAIN txn, pl \in Payloads : FirstFree(t) /\ handleEsewaSuccessBegin(t, pl)
  \/ \E t \in DOMAIN txn, poll \in PollOutcomes : handleEsewaSuccessWrite(t, poll)
  \/ \E t \in DOMAIN txn : handleEsewaSuccessCommit(t)
  \/ \E uuid \in 1..MaxOrders : handleEsewaFailure(uuid)
  \/ \E id \in 1..MaxOrders, st \in RequestedStatuses : updateOrderStatus(id, st)
  \/ \E id \in 1..MaxOrders, poll \in PollOutcomes : checkPaymentStatus(id, poll)

Spec == Init /\ [][Next]_vars


\* ------------------------------------------- orders and their statuses
\* the requests that create orders and the sessionless handlers that write
\* an order's statuses: the operator's status update, the client's status
\* check and the gateway's failure redirect
NextOrderStatus ==
  \/ \E t \in DOMAIN txn, u \in DOMAIN cart, m \in PaymentMethods, tax \in TaxAmounts, dc \in DeliveryCharges :
       /\ FirstFree(t)
       /\ RoomForOrder \/ cart[u] = <<>> \/ SomeLineShort(cart[u], stock)
       /\ createOrderFromCartBegin(t, u, m, tax, dc)
  \/ \E t \in DOMAIN txn : createOrderFromCartWrite(t)
  \/ \E t \in DOMAIN txn : createOrderFromCartCommit(t)
  \/ \E t \in DOMAIN txn, u \in DOMAIN cart, items \in CreateOrderItems, m \in PaymentMethods,
          tax \in TaxAmounts, dc \in DeliveryCharges :
       /\ FirstFree(t)
       /\ RoomForOrder \/ SomeLineShort(items, stock)
       /\ createOrderBegin(t, u, items, m, tax, dc)
  \/ \E t \in DOMAIN txn : createOrderWrite(t)
  \/ \E t \in DOMAIN txn : createOrderCommit(t)
  \/ \E uuid \in 1..MaxOrders : handleEsewaFailure(uuid)
  \/ \E id \in 1..MaxOrders, st \in RequestedStatuses : updateOrderStatus(id, st)
  \/ \E id \in 1..MaxOrders, poll \in PollOutcomes : checkPaymentStatus(id, poll)

SpecOrderStatus == Init /\ [][NextOrderStatus]_vars

\* --------------------------------------------- Cart.ts and the catalogue
\* position of the cart line holding product p, 0 if none (findIndex)
FindLine(items, p) ==
  IF \E i \in 1..Len(items) : items[i].product = p
  THEN CHOOSE i \in 1..Len(items) :
         /\ items[i].product = p
         /\ \A j \in 1..(i-1) : items[j].product # p
  ELSE 0

\* Cart.ts lines 8-79: a new line captures the product's price of the moment;
\* a product already in the cart only gets its quantity raised
addToCart(userId, productId, quantity) ==
  /\ quantity >= 1
  /\ stock[productId] >= quantity
  /\ Free(CartDoc(userId))
  /\ LET items == cart[userId]
         idx == FindLine(items, productId)
     IN IF idx > 0
        THEN /\ stock[productId] >= items[idx].quantity + quantity
             /\ cart' = [cart EXCEPT ![userId][idx].quantity = @ + quantity]
        ELSE cart' = [cart EXCEPT ![userId] =
                        Append(@, [product |-> productId, quantity |-> quantity,
                                   price |-> price[productId]])]
  /\ dirty' = MarkDirty(0, {CartDoc(userId)})
  /\ UNCHANGED <<stock, orders, txn, price>>

\* Cart.ts lines 246-273
clearCart(userId) ==
  /\ Free(CartDoc(userId))
  /\ cart' = [cart EXCEPT ![userId] = <<>>]
  /\ dirty' = MarkDirty(0, {CartDoc(userId)})
  /\ UNCHANGED <<stock, orders, txn, price>>

\* a field the request body leaves out
Absent == 0 - 1
\* updateProduct (Product controller): price and stock are overwritten when
\* the body carries them
updateProduct(id, newPrice, newStock) ==
  /\ Free(ProductDoc(id))
  /\ price' = IF newPrice = Absent THEN price ELSE [price EXCEPT ![id] = newPrice]
  /\ stock' = IF newStock = Absent THEN stock ELSE [stock EXCEPT ![id] = newStock]
  /\ dirty' = MarkDirty(0, {ProductDoc(id)})
  /\ UNCHANGED <<cart, orders, txn>>

\* prices and stocks an operator sets
NewPrices == {4}
NewStocks == {MaxStock}

\* order creation, confirmation and status changes together with catalogue
\* and cart changes
NextCatalogue ==
  \/ \E t \in DOMAIN txn, u \in DOMAIN cart, m \in PaymentMethods, tax \in TaxAmounts, dc \in DeliveryCharges :
       /\ FirstFree(t)
       /\ RoomForOrder
       /\ createOrderFromCartBegin(t, u, m, tax, dc)
  \/ \E t \in DOMAIN txn : createOrderFromCartWrite(t)
  \/ \E t \in DOMAIN txn : createOrderFromCartCommit(t)
  \/ \E t \in DOMAIN txn, u \in DOMAIN cart, items \in CreateOrderItems, m \in PaymentMethods,
          tax \in TaxAmounts, dc \in DeliveryCharges :
       /\ FirstFree(t)
       /\ RoomForOrder
       /\ createOrderBegin(t, u, items, m, tax, dc)
  \/ \E t \in DOMAIN txn : createOrderWrite(t)
  \/ \E t \in DOMAIN txn : createOrderCommit(t)
  \/ \E t \in DOMAIN txn, uuid \in 1..MaxOrders :
       FirstFree(t) /\ handleEsewaSuccessBegin(t, Payload("COMPLETE", 5, uuid, "valid"))
  \/ \E t \in DOMAIN txn : handleEsewaSuccessWrite(t, "COMPLETE")
  \/ \E t \in DOMAIN txn : handleEsewaSuccessCommit(t)
  \/ \E id \in 1..MaxOrders : updateOrderStatus(id, "DELIVERED")
  \/ \E id \in 1..MaxOrders : checkPaymentStatus(id, "CANCELED")
  \/ \E p \in {"A"}, np \in NewPrices, ns \in NewStocks : updateProduct(p, np, ns)
  \/ \E u \in DOMAIN cart : FindLine(cart[u], "A") = 0 /\ addToCart(u, "A", 1)
  \/ \E u \in DOMAIN cart : cart[u] # <<>> /\ clearCart(u)

SpecCatalogue == Init /\ [][NextCatalogue]_vars

\* ------------------------------------------------- concurrent cart requests
\* the products of the lines, in their positions
Positions(items) == [i \in 1..Len(items) |-> items[i].product]

\* the items without the line at position idx (items.splice(idx, 1))
Splice(items, idx) == SubSeq(items, 1, idx - 1) \o SubSeq(items, idx + 1, Len(items))

\* Cart.ts lines 10-45 and 48-53: the request is validated against the
\* product and the cart document is loaded; the save has not happened yet
addToCartFind(t, userId, productId, quantity) ==
  /\ txn[t].pc \in {"idle", "done"}
  /\ LET items == cart[userId]
         idx == FindLine(items, productId)
     IN txn' = [txn EXCEPT ![t] =
          IF quantity < 1 \/ stock[productId] < quantity THEN Done("addToCart", 400)
          ELSE IF idx > 0 /\ stock[productId] < items[idx].quantity + quantity
            THEN Done("addToCart", 400)
          ELSE [IdleTxn EXCEPT !.pc = "loaded", !.op = "addToCart", !.user = userId,
                               !.items = <<[product |-> productId, quantity |-> quantity,
                                            price |-> price[productId]]>>,
                               !.snapCart = items]]
  /\ UNCHANGED <<stock, cart, orders, dirty, price>>

\* Cart.ts lines 55-73, cart.save() of a loaded cart document: a line pushed
\* onto items is written as an append to the stored array; a quantity set on
\* the line at a position is written to that position and refused (500) when
\* the stored array's positions are no longer the loaded ones
addToCartSave(t) ==
  /\ txn[t].pc = "loaded"
  /\ txn[t].op = "addToCart"
  /\ Free(CartDoc(txn[t].user))
  /\ LET x == txn[t]
         line == x.items[1]
         idx == FindLine(x.snapCart, line.product)
     IN IF idx > 0
        THEN IF Positions(cart[x.user]) # Positions(x.snapCart)
             THEN /\ txn' = [txn EXCEPT ![t] = Done("addToCart", 500)]
                  /\ UNCHANGED cart
             ELSE /\ cart' = [cart EXCEPT ![x.user][idx].quantity =
                                x.snapCart[idx].quantity + line.quantity]
                  /\ txn' = [txn EXCEPT ![t] = Done("addToCart", 200)]
        ELSE /\ cart' = [cart EXCEPT ![x.user] = Append(@, line)]
             /\ txn' = [txn EXCEPT ![t] = Done("addToCart", 200)]
  /\ UNCHANGED <<stock, orders, dirty, price>>

\* Cart.ts lines 145-204: a negative quantity is answered 400, a product
\* without a line 404, a quantity above the stock 400; quantity 0 removes the line
updateCartItem(userId, productId, quantity) ==
  /\ Free(CartDoc(userId))
  /\ LET items == cart[userId]
         idx == FindLine(items, productId)
     IN IF quantity < 0 \/ idx = 0 THEN UNCHANGED cart
        ELSE IF quantity = 0 THEN cart' = [cart EXCEPT ![userId] = Splice(items, idx)]
        ELSE IF stock[productId] < quantity THEN UNCHANGED cart
        ELSE cart' = [cart EXCEPT ![userId][idx].quantity = quantity]
  /\ UNCHANGED <<stock, orders, txn, dirty, price>>

\* Cart.ts lines 207-243
removeFromCart(userId, productId) ==
  /\ Free(CartDoc(userId))
  /\ LET items == cart[userId]
         idx == FindLine(items, productId)
     IN IF idx = 0 THEN UNCHANGED cart
        ELSE cart' = [cart EXCEPT ![userId] = Splice(items, idx)]
  /\ UNCHANGED <<stock, orders, txn, dirty, price>>

\* quantities a cart request body can carry
CartQuantities == 0..MaxStock

\* two request slots; the user's cart document exists and is empty
InitCartRequests ==
  /\ stock = [p \in Products |-> MaxStock]
  /\ cart = [u \in Users |-> <<>>]
  /\ orders = <<>>
  /\ txn = [t \in 1..2 |-> IdleTxn]
  /\ dirty = [t \in 1..2 |-> {}]
  /\ price = [p \in Products |-> Price(p)]

NextCartRequests ==
  \/ \E t \in DOMAIN txn, u \in Users, p \in Products, q \in CartQuantities :
       addToCartFind(t, u, p, q)
  \/ \E t \in DOMAIN txn : addToCartSave(t)
  \/ \E u \in Users, p \in Products, q \in CartQuantities \cup {Absent} :
       updateCartItem(u, p, q)
  \/ \E u \in Users, p \in Products : removeFromCart(u, p)

SpecCartRequests == InitCartRequests /\ [][NextCartRequests]_vars

\* ------------------------------------- concurrent success callbacks
\* the gateway order createOrderFromCart committed for the two-line cart
PendingGatewayOrder ==
  [user |-> "u1",
   items |-> InitCart,
   paymentMethod |-> "ESEWA",
   paymentStatus |-> "PENDING",
   orderStatus |-> "PENDING",
   totalAmount |-> SumPrice(InitCart),
   taxAmount |-> 0,
   deliveryCharge |-> 0,
   grandTotal |-> SumPrice(InitCart),
   esewaTransactionUuid |-> 1,
   esewaTransactionCode |-> None,
   esewaRefId |-> None,
   esewaSignature |-> <<None, <<>>>>]

\* two request slots; the order is there and unpaid, nothing is reserved
InitCallbacks ==
  /\ stock = [p \in Products |-> MaxStock]
  /\ cart = [u \in Users |-> InitCart]
  /\ orders = <<PendingGatewayOrder>>
  /\ txn = [t \in 1..2 |-> IdleTxn]
  /\ dirty = [t \in 1..2 |-> {}]
  /\ price = [p \in Products |-> Price(p)]

\* lines 198-223: the request is accepted, the session started and the
\* payload decoded; nothing was read from the database yet
handleEsewaSuccessReceive(t, pl) ==
  /\ txn[t].pc = "idle"
  /\ txn' = [txn EXCEPT ![t] = [IdleTxn EXCEPT !.pc = "received",
                                               !.op = "handleEsewaSuccess", !.payload = pl]]
  /\ UNCHANGED <<stock, cart, orders, dirty, price>>

\* lines 226-248 of a request accepted before
handleEsewaSuccessFind(t) ==
  /\ txn[t].pc = "received"
  /\ handleEsewaSuccessBegin(t, txn[t].payload)

\* each slot takes one success callback of the gateway for the order's
\* correlation id
NextCallbacks ==
  \/ \E t \in DOMAIN txn, st \in CallbackStatuses :
       handleEsewaSuccessReceive(t, Payload(st, SumPrice(InitCart), 1, "valid"))
  \/ \E t \in DOMAIN txn : handleEsewaSuccessFind(t)
  \/ \E t \in DOMAIN txn, poll \in PollOutcomes : handleEsewaSuccessWrite(t, poll)
  \/ \E t \in DOMAIN txn : handleEsewaSuccessCommit(t)

SpecCallbacks == InitCallbacks /\ [][NextCallbacks]_vars

\* ------------------------------- success callbacks against changing stock
\* the success callbacks for the unpaid order while an operator sets stocks
NextShortStock ==
  \/ NextCallbacks
  \/ \E p \in Products, ns \in 0..MaxStock : updateProduct(p, Absent, ns)

SpecShortStock == InitCallbacks /\ [][NextShortStock]_vars

\* ------------------------------------------------ signature round trip
\* amounts and correlation ids of the payment forms tried
MaxAmount == 6
MaxUuid == 2
OtherCode == "NP-ES-OTHER"
\* what is changed in a form after it was signed
Alterations == {"none", "total_amount", "transaction_uuid", "product_code", "field_order"}
Alter(form, how) ==
  CASE how = "total_amount" -> [form EXCEPT !.total_amount = @ + 1]
    [] how = "transaction_uuid" -> [form EXCEPT !.transaction_uuid = @ + 1]
    [] how = "product_code" -> [form EXCEPT !.product_code = OtherCode]
    [] how = "field_order" -> [form EXCEPT !.signed_field_names = ReorderedFieldNames]
    [] OTHER -> form
Forms ==
  {Alter(prepareEsewaPaymentData(amt, 0, 0, uuid, MERCHANT_CODE), how) :
     amt \in 1..MaxAmount, uuid \in 1..MaxUuid, how \in Alterations}

InitSignature ==
  /\ stock = [p \in Products |-> MaxStock]
  /\ cart = [u \in Users |-> <<>>]
  /\ orders = <<>>
  /\ \E form \in Forms : txn = [t \in Txns |-> [IdleTxn EXCEPT !.payload = form]]
  /\ dirty = [t \in Txns |-> {}]
  /\ price = [p \in Products |-> Price(p)]

\* verifyEsewaSignature applied to the form; res is 1 for true, 0 for false
verifySignedForm(t) ==
  /\ txn[t].pc = "idle"
  /\ txn' = [txn EXCEPT ![t].pc = "done", ![t].op = "verifyEsewaSignature",
                         ![t].res = IF PayloadValid(txn[t].payload) THEN 1 ELSE 0]
  /\ UNCHANGED <<stock, cart, orders, dirty, price>>

NextSignature == \E t \in DOMAIN txn : verifySignedForm(t)

SpecSignature == InitSignature /\ [][NextSignature]_vars

\* ----------------------------- success callbacks with a save that throws
\* lines 252-320 when the poll answered COMPLETE and the save number `at` of
\* the confirming branch (the product saves in item order, then the cart
\* save) threw on the driver's side, the write not applied and the
\* transaction still open: the catch block at 289 takes the exception for a
\* failed poll and, for a COMPLETE callback, runs the whole stock loop and the
\* cart clearing again on the transaction's current view; esewaRefId was
\* assigned before the throw
handleEsewaSuccessWriteAfterThrow(t, at) ==
  /\ txn[t].pc = "open"
  /\ txn[t].op = "handleEsewaSuccess"
  /\ txn[t].payload.status = "COMPLETE"
  /\ at \in 1..(Len(txn[t].items) + 1)
  /\ LET x == txn[t]
         pl == x.payload
         before == SubSeq(x.items, 1, at - 1)
         l1 == DecrementLoop(x.snapStock, before, 0)
         l2 == DecrementLoop(l1.view, x.items, 0)
         saved == IF ~l1.ok THEN SubSeq(before, 1, l1.n)
                  ELSE IF ~l2.ok THEN before \o SubSeq(x.items, 1, l2.n)
                  ELSE x.items
         cartDocs == IF x.snapCart THEN {CartDoc(x.user)} ELSE {}
         paid == [paymentStatus |-> "PAID", orderStatus |-> "CONFIRMED",
                  esewaTransactionCode |-> pl.transaction_code,
                  esewaRefId |-> RefId,
                  esewaSignature |-> pl.signature]
     IN txn' = [txn EXCEPT ![t] =
          IF WriteConflict(t, ItemDocs(saved)) THEN Done("handleEsewaSuccess", 500)
          ELSE IF ~l1.ok \/ ~l2.ok THEN Done("handleEsewaSuccess", 500)
          ELSE IF WriteConflict(t, cartDocs \cup {OrderDoc(x.order)}) THEN Done("handleEsewaSuccess", 500)
          ELSE [x EXCEPT !.pc = "written", !.wstock = l2.view, !.wcart = x.snapCart,
                         !.worder = paid,
                         !.wdocs = ItemDocs(x.items) \cup cartDocs \cup {OrderDoc(x.order)}]]
  /\ dirty' = IF txn'[t].pc = "done" THEN EndTransaction(dirty, t) ELSE dirty
  /\ UNCHANGED <<stock, cart, orders, price>>

\* the success callbacks for the unpaid order, where a save may throw
NextWriteFaults ==
  \/ NextCallbacks
  \/ \E t \in DOMAIN txn, at \in 1..(Len(InitCart) + 1) : handleEsewaSuccessWriteAfterThrow(t, at)

SpecWriteFaults == InitCallbacks /\ [][NextWriteFaults]_vars

\* ------------------------------------- a cart submitted a second time
\* the unpaid gateway order's cart is still full: it is submitted again as a
\* gateway order, and the gateway reports each payment as COMPLETE
NextResubmit ==
  \/ \E t \in DOMAIN txn, u \in DOMAIN cart :
       /\ FirstFree(t)
       /\ Len(orders) + PendingCreates <= MaxOrders
       /\ createOrderFromCartBegin(t, u, "ESEWA", 0, 0)
  \/ \E t \in DOMAIN txn : createOrderFromCartWrite(t)
  \/ \E t \in DOMAIN txn : createOrderFromCartCommit(t)
  \/ \E t \in DOMAIN txn, uuid \in 1..(MaxOrders + 1) :
       /\ FirstFree(t)
       /\ handleEsewaSuccessBegin(t, Payload("COMPLETE", SumPrice(InitCart), uuid, "valid"))
  \/ \E t \in DOMAIN txn : handleEsewaSuccessWrite(t, "COMPLETE")
  \/ \E t \in DOMAIN txn : handleEsewaSuccessCommit(t)

SpecResubmit == InitCallbacks /\ [][NextResubmit]_vars

\* ------------------------------------------- sessions and transactions
\* the handlers that open a session and a transaction, and the ways through
\* each of them: "invalid" is a request answered 400/404 by an early return
\* that first aborts, "bare" an early return that does not, "throws" an
\* exception before commitTransaction, "throwsAfterCommit" an exception
\* after it (the populate query or the response)
SessionHandlers == {"createOrderFromCart", "createOrder", "handleEsewaSuccess"}
SessionPaths(op) ==
  CASE op = "createOrderFromCart" -> {"invalid", "success", "throws", "throwsAfterCommit"}
    [] op = "createOrder" -> {"bare", "success", "throws", "throwsAfterCommit"}
    [] OTHER -> {"bare", "invalid", "success", "throws", "throwsAfterCommit"}

\* the session calls the try and catch blocks make on a path, in order
SessionCalls(op, path) ==
  IF op = "createOrderFromCart"
  THEN CASE path = "invalid" -> <<"abortTransaction">>
         [] path = "success" -> <<"commitTransaction", "endSession">>
         [] path = "throws" -> <<"abortTransaction", "endSession">>
         [] OTHER -> <<"commitTransaction", "endSession", "abortTransaction", "endSession">>
  ELSE CASE path = "bare" -> <<>>
         [] path = "invalid" -> <<"abortTransaction">>
         [] path = "success" -> <<"commitTransaction">>
         [] path = "throws" -> <<"abortTransaction">>
         [] OTHER -> <<"commitTransaction", "abortTransaction">>

\* the session calls of the finally block (createOrderFromCart has none)
SessionFinally(op) == IF op = "createOrderFromCart" THEN <<>> ELSE <<"endSession">>

\* a request slot with its session: session is the state of the
\* transaction, ended whether endSession was called, misuse whether
\* abortTransaction was called on a committed transaction
SessionSlot ==
  [session |-> "none", ended |-> FALSE, calls |-> <<>>, fin |-> <<>>, misuse |-> FALSE] @@ IdleTxn

InitSession ==
  /\ stock = [p \in Products |-> MaxStock]
  /\ cart = [u \in Users |-> <<>>]
  /\ orders = <<>>
  /\ txn = [t \in 1..2 |-> SessionSlot]
  /\ dirty = [t \in 1..2 |-> {}]
  /\ price = [p \in Products |-> Price(p)]

\* mongoose.startSession(); session.startTransaction()
startRequest(t, op, path) ==
  /\ txn[t].pc = "idle"
  /\ txn' = [txn EXCEPT ![t] = [SessionSlot EXCEPT !.pc = "running", !.op = op,
                                                   !.session = "inTransaction",
                                                   !.calls = SessionCalls(op, path),
                                                   !.fin = SessionFinally(op)]]
  /\ UNCHANGED <<stock, cart, orders, dirty, price>>

\* one session call: commitTransaction and abortTransaction end a
\* transaction in progress and throw otherwise; endSession aborts a
\* transaction in progress and ends the session
ApplyCall(x, call) ==
  CASE call = "commitTransaction" ->
         [x EXCEPT !.session = IF @ = "inTransaction" THEN "committed" ELSE @]
    [] call = "abortTransaction" ->
         [x EXCEPT !.session = IF @ = "inTransaction" THEN "aborted" ELSE @,
                   !.misuse = @ \/ x.session = "committed"]
    [] OTHER ->
         [x EXCEPT !.session = IF @ = "inTransaction" THEN "aborted" ELSE @,
                   !.ended = TRUE]

\* the next call of the try or catch block; a call that throws leaves the block
sessionCall(t) ==
  /\ txn[t].pc = "running"
  /\ txn[t].calls # <<>>
  /\ LET x == txn[t]
         call == Head(x.calls)
         throws == call \in {"commitTransaction", "abortTransaction"} /\ x.session # "inTransaction"
     IN txn' = [txn EXCEPT ![t] =
                  [ApplyCall(x, call) EXCEPT !.calls = IF throws THEN <<>> ELSE Tail(x.calls)]]
  /\ UNCHANGED <<stock, cart, orders, dirty, price>>

\* the finally block
finallyCall(t) ==
  /\ txn[t].pc = "running"
  /\ txn[t].calls = <<>>
  /\ txn[t].fin # <<>>
  /\ txn' = [txn EXCEPT ![t] = [ApplyCall(txn[t], Head(txn[t].fin)) EXCEPT !.fin = Tail(txn[t].fin)]]
  /\ UNCHANGED <<stock, cart, orders, dirty, price>>

\* the handler returns (or its promise rejects)
returnRequest(t) ==
  /\ txn[t].pc = "running"
  /\ txn[t].calls = <<>>
  /\ txn[t].fin = <<>>
  /\ txn' = [txn EXCEPT ![t].pc = "done"]
  /\ UNCHANGED <<stock, cart, orders, dirty, price>>

NextSession ==
  \/ \E t \in DOMAIN txn, op \in SessionHandlers : \E path \in SessionPaths(op) :
       startRequest(t, op, path)
  \/ \E t \in DOMAIN txn : sessionCall(t)
  \/ \E t \in DOMAIN txn : finallyCall(t)
  \/ \E t \in DOMAIN txn : returnRequest(t)

SpecSession == InitSession /\ [][NextSession]_vars

\* ------------------------------------------- order of the signed fields
\* a callback that lists its signed fields in another order
ReorderedCallbackFieldNames == "status,transaction_code,total_amount,transaction_uuid,product_code,signed_field_names"

\* signedFieldNames.split(',') for the lists of field names used here
Split(signedFieldNames) ==
  CASE signedFieldNames = CallbackFieldNames ->
         <<"transaction_code", "status", "total_amount", "transaction_uuid", "product_code",
           "signed_field_names">>
    [] signedFieldNames = ReorderedCallbackFieldNames ->
         <<"status", "transaction_code", "total_amount", "transaction_uuid", "product_code",
           "signed_field_names">>
    [] signedFieldNames = RequestFieldNames ->
         <<"total_amount", "transaction_uuid", "product_code">>
    [] signedFieldNames = ReorderedFieldNames ->
         <<"transaction_uuid", "total_amount", "product_code">>
    [] OTHER -> <<signedFieldNames>>

\* field=value pairs joined in the order signed_field_names lists them
ListedMessage(pl) ==
  LET fields == Split(pl.signed_field_names) IN
    [i \in 1..(2 * Len(fields)) |->
       IF i % 2 = 1 THEN fields[(i + 1) \div 2] ELSE pl[fields[i \div 2]]]

\* the revision of verifyEsewaSignature that follows signed_field_names
verifyEsewaSignatureListedOrder(transactionCode, status, totalAmount, transactionUuid, productCode, signedFieldNames, receivedSignature) ==
  Hmac(SECRET_KEY,
       ListedMessage([transaction_code |-> transactionCode, status |-> status,
                      total_amount |-> totalAmount, transaction_uuid |-> transactionUuid,
                      product_code |-> productCode, signed_field_names |-> signedFieldNames]))
    = receivedSignature

\* callbacks signed with the shared secret, over the fields in the listed
\* order or in the order of CallbackFieldNames
CallbackOrders == {CallbackFieldNames, ReorderedCallbackFieldNames}
SignedOver == {"listed", "fixed"}
SignedCallback(status, totalAmount, uuid, names, over) ==
  LET pl == [Payload(status, totalAmount, uuid, "valid") EXCEPT !.signed_field_names = names] IN
    [pl EXCEPT !.signature =
       IF over = "listed" THEN Hmac(SECRET_KEY, ListedMessage(pl))
       ELSE Hmac(SECRET_KEY, ListedMessage([pl EXCEPT !.signed_field_names = CallbackFieldNames]))]
SignedCallbacks ==
  {SignedCallback(st, amt, uuid, names, over) :
     st \in CallbackStatuses, amt \in 1..MaxAmount, uuid \in 1..MaxUuid,
     names \in CallbackOrders, over \in SignedOver}

InitFieldOrder ==
  /\ stock = [p \in Products |-> MaxStock]
  /\ cart = [u \in Users |-> <<>>]
  /\ orders = <<>>
  /\ \E pl \in SignedCallbacks : txn = [t \in Txns |-> [IdleTxn EXCEPT !.payload = pl]]
  /\ dirty = [t \in Txns |-> {}]
  /\ price = [p \in Products |-> Price(p)]

SpecFieldOrder == InitFieldOrder /\ [][NextSignature]_vars

\* ------------------------------------------------- concurrent cash orders
\* N = MaxStock + 1 customers, each with one unit of product A in the cart,
\* each sending one cash createOrderFromCart request, all in flight together
Buyers == 1..(MaxStock + 1)

InitOversell ==
  /\ stock = [p \in Products |-> MaxStock]
  /\ cart = [u \in Buyers |-> <<Line("A", 1)>>]
  /\ orders = <<>>
  /\ txn = [t \in Buyers |-> IdleTxn]
  /\ dirty = [t \in Buyers |-> {}]
  /\ price = [p \in Products |-> Price(p)]

NextOversell ==
  \/ \E t \in DOMAIN txn, tax \in TaxAmounts, dc \in DeliveryCharges :
       /\ txn[t].pc = "idle"
       /\ createOrderFromCartBegin(t, t, "CASH_ON_DELIVERY", tax, dc)
  \/ \E t \in DOMAIN txn : createOrderFromCartWrite(t)
  \/ \E t \in DOMAIN txn : createOrderFromCartCommit(t)

SpecOversell == InitOversell /\ [][NextOversell]_vars

\* ================================================================ claims
\* the gateway issued this callback: its signature is the gateway's HMAC of
\* exactly the fields the callback carries
GatewayPayloads ==
  {Payload(st, amt, uuid, "valid") :
     st \in CallbackStatuses, amt \in CallbackAmounts, uuid \in 1..MaxOrders}
SignedByGateway(pl) == pl \in GatewayPayloads
\* the callbacks the gateway did not issue
UnsignedPayloads == Payloads \ GatewayPayloads

IsGateway(o) == o.paymentMethod = "ESEWA"
\* transaction t commits in this step
Commits(t) == txn[t].pc = "written" /\ txn'[t].pc = "done"

\* C1: N = MaxStock + 1 concurrent cash createOrderFromCart requests for one
\* unit each against stock S = MaxStock: the stock is never negative, at most
\* S requests commit, every committed order took one unit, every request
\* that is over either created its order (201) or was refused for
\* insufficient stock (400), and once all are over exactly S units are gone.
C1_NoOversell ==
  /\ stock["A"] >= 0
  /\ Len(orders) <= MaxStock
  /\ stock["A"] = MaxStock - Len(orders)
  /\ \A t \in DOMAIN txn : txn[t].pc = "done" => txn[t].res \in {201, 400}
  /\ (\A t \in DOMAIN txn : txn[t].pc = "done") => stock["A"] = 0

\* C2: the committed stock of every product is >= 0 in every reachable state.
C2_StockNeverNegative == \A p \in Products : stock[p] >= 0

\* a replayed confirmation has sold a product out and one more decrement
\* was refused
C2_Witness ==
  /\ orders # <<>>
  /\ \A p \in Products : stock[p] = 0
  /\ \E t \in DOMAIN txn : txn[t] = Done("handleEsewaSuccess", 500)

\* C3: a success callback whose payload was already applied to the order
\* (the order is PAID/CONFIRMED and carries this payload's signature) commits
\* without changing any stock, the cart or the order's statuses.
C3_IdempotentCallback ==
  [][\A t \in DOMAIN txn :
       (/\ handleEsewaSuccessCommit(t)
        /\ txn[t].payload.status = "COMPLETE"
        /\ orders[txn[t].order].paymentStatus = "PAID"
        /\ orders[txn[t].order].orderStatus = "CONFIRMED"
        /\ orders[txn[t].order].esewaSignature = txn[t].payload.signature)
       => /\ stock' = stock
          /\ cart' = cart
          /\ orders'[txn[t].order].paymentStatus = "PAID"
          /\ orders'[txn[t].order].orderStatus = "CONFIRMED"]_vars

BecomesPaid(id) ==
  /\ orders'[id].paymentStatus = "PAID"
  /\ id <= Len(orders) => orders[id].paymentStatus # "PAID"
\* the step commits a success callback for order id that the gateway signed
VerifiedCallbackCommits(id) ==
  \E t \in DOMAIN txn :
    /\ Commits(t)
    /\ txn[t].op = "handleEsewaSuccess"
    /\ txn[t].order = id
    /\ SignedByGateway(txn[t].payload)

\* C5 as stated: a gateway order turns PAID only in the commit of a success
\* callback whose signature passed verification.
C5_PaidOnlyByVerifiedCallback ==
  [][\A id \in 1..Len(orders') :
       (IsGateway(orders'[id]) /\ BecomesPaid(id)) => VerifiedCallbackCommits(id)]_vars

\* C5 amended: a gateway order turns PAID only in the commit of a success
\* callback whose signature passed verification, or when checkPaymentStatus
\* polls the gateway for that order and is answered COMPLETE.
C5_PaidOnlyByCallbackOrPoll ==
  [][\A id \in 1..Len(orders') :
       (IsGateway(orders'[id]) /\ BecomesPaid(id))
       => (VerifiedCallbackCommits(id) \/ checkPaymentStatus(id, "COMPLETE"))]_vars

\* a gateway order is PAID and carries the signature of the callback that paid it
C5_Witness ==
  \E id \in 1..Len(orders) :
    /\ IsGateway(orders[id])
    /\ orders[id].paymentStatus = "PAID"
    /\ orders[id].esewaSignature = GatewaySignature("COMPLETE", 5, id)

\* C6: once PAID an order stays PAID, and FAILED is entered from PENDING only.
C6_PaidIsOneWay ==
  [][\A id \in 1..Len(orders) :
       /\ orders[id].paymentStatus = "PAID" => orders'[id].paymentStatus = "PAID"
       /\ (orders'[id].paymentStatus = "FAILED" /\ orders[id].paymentStatus # "FAILED")
            => orders[id].paymentStatus = "PENDING"]_vars

\* the step is one of the gateway-driven operations
GatewayStep ==
  \/ \E t \in DOMAIN txn : handleEsewaSuccessCommit(t)
  \/ \E uuid \in 1..MaxOrders : handleEsewaFailure(uuid)
  \/ \E id \in 1..MaxOrders, poll \in PollOutcomes : checkPaymentStatus(id, poll)

\* C7: a gateway-driven step changes neither the statuses of an order that is
\* DELIVERED or CANCELLED nor, on behalf of such an order, any stock.
C7_TerminalStatesStay ==
  [][\A id \in 1..Len(orders) :
       (GatewayStep /\ orders[id].orderStatus \in {"DELIVERED", "CANCELLED"})
       => /\ orders'[id].orderStatus = orders[id].orderStatus
          /\ orders'[id].paymentStatus = orders[id].paymentStatus
          /\ (\E t \in DOMAIN txn : Commits(t) /\ txn[t].order = id) => stock' = stock]_vars

\* C8: a gateway order that is CONFIRMED is not PENDING in payment.
C8_ConfirmedGatewayOrderNotPending ==
  \A id \in 1..Len(orders) :
    (IsGateway(orders[id]) /\ orders[id].orderStatus = "CONFIRMED")
    => orders[id].paymentStatus # "PENDING"

\* C9: createOrderFromCart on a cart with a line that exceeds its product's
\* stock is answered 400, opens no transaction that could write, and leaves
\* every stock, every cart and the orders unchanged.
C9_AtomicCreationFailure ==
  [][\A t \in DOMAIN txn, u \in DOMAIN cart, m \in PaymentMethods,
        tax \in TaxAmounts, dc \in DeliveryCharges :
       (SomeLineShort(cart[u], stock) /\ createOrderFromCartBegin(t, u, m, tax, dc))
       => (txn'[t] = Done("createOrderFromCart", 400) /\ UNCHANGED <<stock, cart, orders>>)]_vars

\* the request was refused for the second line of a two-line cart whose
\* first line had enough stock
C9_Witness ==
  \E t \in DOMAIN txn, u \in DOMAIN cart :
    /\ txn[t] = Done("createOrderFromCart", 400)
    /\ Len(cart[u]) = 2
    /\ stock[cart[u][1].product] >= cart[u][1].quantity
    /\ stock[cart[u][2].product] < cart[u][2].quantity
    /\ stock[cart[u][1].product] = MaxStock

\* C10: a cash createOrderFromCart changes the database in its commit step
\* only, and that step adds the order (CONFIRMED/PENDING, items = the cart's
\* lines), takes each line's quantity off its product's stock and empties
\* the cart, all together.
C10_CashOrderCommitsAtomically ==
  [][\A t \in DOMAIN txn :
       (/\ txn[t].op = "createOrderFromCart"
        /\ txn[t].method = "CASH_ON_DELIVERY"
        /\ txn'[t] # txn[t])
       => IF txn[t].pc = "written"
          THEN LET u == txn[t].user
                   o == orders'[Len(orders')]
               IN /\ Len(orders') = Len(orders) + 1
                  /\ SubSeq(orders', 1, Len(orders)) = orders
                  /\ o.user = u
                  /\ o.paymentMethod = "CASH_ON_DELIVERY"
                  /\ o.orderStatus = "CONFIRMED"
                  /\ o.paymentStatus = "PENDING"
                  /\ o.items = cart[u]
                  /\ \A p \in Products : stock'[p] = stock[p] - SumQty(cart[u], p)
                  /\ cart' = [cart EXCEPT ![u] = <<>>]
                  /\ txn'[t] = Done("createOrderFromCart", 201)
          ELSE UNCHANGED <<stock, cart, orders>>]_vars

\* a cash order made from the two-line cart is committed: the order is there,
\* both stocks are one lower and the cart is empty
C10_Witness ==
  \E id \in 1..Len(orders), t \in DOMAIN txn :
    /\ txn[t] = Done("createOrderFromCart", 201)
    /\ orders[id].paymentMethod = "CASH_ON_DELIVERY"
    /\ orders[id].items = InitCart
    /\ cart[orders[id].user] = <<>>
    /\ \A p \in Products : stock[p] = MaxStock - 1

\* C11: a gateway (ESEWA) createOrderFromCart changes the database in its
\* commit step only, and that step adds one order that is PENDING/PENDING,
\* carries a correlation id, and leaves every product's stock and every
\* cart as they were.
C11_GatewayOrderReservesNothing ==
  [][\A t \in DOMAIN txn :
       (/\ txn[t].op = "createOrderFromCart"
        /\ txn[t].method = "ESEWA"
        /\ txn'[t] # txn[t])
       => IF txn[t].pc = "written"
          THEN LET o == orders'[Len(orders')]
               IN /\ Len(orders') = Len(orders) + 1
                  /\ SubSeq(orders', 1, Len(orders)) = orders
                  /\ o.paymentMethod = "ESEWA"
                  /\ o.paymentStatus = "PENDING"
                  /\ o.orderStatus = "PENDING"
                  /\ o.esewaTransactionUuid # 0
                  /\ o.items = cart[txn[t].user]
                  /\ UNCHANGED <<stock, cart>>
                  /\ txn'[t] = Done("createOrderFromCart", 201)
          ELSE UNCHANGED <<stock, cart, orders>>]_vars

\* a gateway order made from the two-line cart is committed: it is
\* PENDING/PENDING with its correlation id, the stock is full and the cart
\* still holds both lines
C11_Witness ==
  \E id \in 1..Len(orders), t \in DOMAIN txn :
    /\ txn[t] = Done("createOrderFromCart", 201)
    /\ orders[id].paymentMethod = "ESEWA"
    /\ orders[id].paymentStatus = "PENDING"
    /\ orders[id].orderStatus = "PENDING"
    /\ orders[id].esewaTransactionUuid = id
    /\ orders[id].items = InitCart
    /\ cart[orders[id].user] = InitCart
    /\ \A p \in Products : stock[p] = MaxStock

\* the order a success-callback transaction works on is still as created
PendingPending(id) ==
  orders[id].paymentStatus = "PENDING" /\ orders[id].orderStatus = "PENDING"

Unaltered(form) ==
  /\ form.signed_field_names = RequestFieldNames
  /\ form.signature =
       generateEsewaSignature(form.total_amount, form.transaction_uuid, form.product_code)

\* C14: verifyEsewaSignature answers true for the signature
\* generateEsewaSignature / prepareEsewaPaymentData made for the same
\* total_amount, transaction_uuid and product_code with signed_field_names
\* 'total_amount,transaction_uuid,product_code', and false once a signed
\* field value or the order of the signed fields was altered.
C14_SignatureRoundTrip ==
  \A t \in DOMAIN txn :
    (txn[t].pc = "done" /\ txn[t].op = "verifyEsewaSignature")
    => (txn[t].res = 1 <=> Unaltered(txn[t].payload))

\* C15: with two success callbacks for the same correlation id in flight
\* together, the ordered quantities are taken off the stock at most once
\* (and exactly once when both requests are over and one confirmed).
C15_ConcurrentCallbacksDecrementOnce ==
  \A p \in Products :
    stock[p] \in {MaxStock, MaxStock - SumQty(orders[1].items, p)}

\* the order status transitions an operator may make
AllowedTransitions ==
  {<<"PENDING", "CONFIRMED">>, <<"CONFIRMED", "DELIVERED">>,
   <<"PENDING", "CANCELLED">>, <<"CONFIRMED", "CANCELLED">>}

\* C16: updateOrderStatus performs PENDING->CONFIRMED, CONFIRMED->DELIVERED,
\* PENDING->CANCELLED and CONFIRMED->CANCELLED only; a request for any other
\* transition leaves the order as it is.
C16_OnlyAllowedTransitions ==
  [][\A id \in 1..Len(orders), st \in validStatuses :
       updateOrderStatus(id, st)
       => (<<orders[id].orderStatus, st>> \in AllowedTransitions \/ orders' = orders)]_vars

\* C17: a validly signed callback for a PENDING/PENDING order whose own
\* status is not COMPLETE, or whose poll answers CANCELED or NOT_FOUND, is
\* staged as FAILED/CANCELLED on the order document alone (unless that
\* document was changed under the transaction), and its commit sets
\* paymentStatus=FAILED and orderStatus=CANCELLED and leaves every stock and
\* every cart as they were.
C17_ContradictedCallbackFailsOrder ==
  [][\A t \in DOMAIN txn :
       (/\ txn[t].op = "handleEsewaSuccess"
        /\ Active(t)
        /\ PendingPending(txn[t].order)
        /\ txn'[t] # txn[t])
       => LET x == txn[t] IN
            /\ \A poll \in PollOutcomes :
                 (/\ handleEsewaSuccessWrite(t, poll)
                  /\ x.payload.status # "COMPLETE" \/ poll \in {"CANCELED", "NOT_FOUND"}
                  /\ dirty[t] = {})
                 => /\ txn'[t].pc = "written"
                    /\ txn'[t].worder.paymentStatus = "FAILED"
                    /\ txn'[t].worder.orderStatus = "CANCELLED"
                    /\ txn'[t].wdocs = {OrderDoc(x.order)}
            /\ (x.pc = "written" /\ x.worder.paymentStatus = "FAILED")
               => /\ orders' = [orders EXCEPT ![x.order].paymentStatus = "FAILED",
                                              ![x.order].orderStatus = "CANCELLED"]
                  /\ UNCHANGED <<stock, cart>>
                  /\ txn'[t] = Done("handleEsewaSuccess", 200)]_vars

\* a callback was committed that failed the gateway order: FAILED/CANCELLED,
\* no gateway fields recorded, the stock full and the cart untouched
C17_Witness ==
  \E id \in 1..Len(orders), t \in DOMAIN txn :
    /\ txn[t] = Done("handleEsewaSuccess", 200)
    /\ IsGateway(orders[id])
    /\ orders[id].paymentStatus = "FAILED"
    /\ orders[id].orderStatus = "CANCELLED"
    /\ orders[id].esewaTransactionCode = None
    /\ orders[id].esewaRefId = None
    /\ \A p \in Products : stock[p] = MaxStock
    /\ cart[orders[id].user] = InitCart

\* C18: when the status poll inside handleEsewaSuccess fails or times out,
\* a validly signed callback for a PENDING/PENDING order is still staged
\* (unless a line's stock is short or a document was changed under it): with
\* callback status COMPLETE its commit sets PAID/CONFIRMED, records the
\* transaction code and signature (there is no poll answer to take a
\* reference id from), takes every line's quantity off the stock once and
\* empties the cart, answering 200; with any other callback status the
\* order is staged FAILED/CANCELLED.
C18_PollUnreachableFallback ==
  [][\A t \in DOMAIN txn :
       (/\ txn[t].op = "handleEsewaSuccess"
        /\ Active(t)
        /\ PendingPending(txn[t].order)
        /\ txn'[t] # txn[t])
       => LET x == txn[t]
              o == orders[x.order]
          IN /\ (handleEsewaSuccessWrite(t, "THROW") /\ dirty[t] = {})
                => IF x.payload.status = "COMPLETE"
                   THEN ~SomeLineShort(x.items, stock)
                        => (txn'[t].pc = "written" /\ txn'[t].worder.paymentStatus = "PAID")
                   ELSE txn'[t].pc = "written" /\ txn'[t].worder.paymentStatus = "FAILED"
             /\ (/\ x.pc = "written"
                 /\ x.worder.paymentStatus = "PAID"
                 /\ x.worder.esewaRefId = Keep)
                => /\ orders' = [orders EXCEPT ![x.order] =
                        [o EXCEPT !.paymentStatus = "PAID",
                                  !.orderStatus = "CONFIRMED",
                                  !.esewaTransactionCode = x.payload.transaction_code,
                                  !.esewaSignature = x.payload.signature]]
                   /\ \A p \in Products : stock'[p] = stock[p] - SumQty(o.items, p)
                   /\ cart' = [cart EXCEPT ![o.user] = <<>>]
                   /\ txn'[t] = Done("handleEsewaSuccess", 200)]_vars

\* the order made from the two-line cart was confirmed on the callback
\* alone: PAID/CONFIRMED with code and signature but no reference id, one
\* unit of each product taken, the cart empty
C18_Witness ==
  \E id \in 1..Len(orders), t \in DOMAIN txn :
    /\ txn[t] = Done("handleEsewaSuccess", 200)
    /\ orders[id].paymentStatus = "PAID"
    /\ orders[id].orderStatus = "CONFIRMED"
    /\ orders[id].esewaTransactionCode = TransactionCode
    /\ orders[id].esewaRefId = None
    /\ orders[id].esewaSignature = GatewaySignature("COMPLETE", 5, id)
    /\ orders[id].items = InitCart
    /\ cart[orders[id].user] = <<>>
    /\ \A p \in Products : stock[p] = MaxStock - 1

\* C19: a validly signed COMPLETE callback that reaches its confirming
\* branch (poll COMPLETE or unreachable) while some line of the order asks for
\* more than its product's current stock is rolled back as a whole: the
\* request ends in 500 and no stock (also of the lines that had enough), no
\* cart and no order changes, so the order keeps its statuses and records no
\* gateway field.
C19_ShortStockRollsBack ==
  [][\A t \in DOMAIN txn, poll \in {"COMPLETE", "THROW"} :
       (/\ txn[t].payload.status = "COMPLETE"
        /\ SomeLineShort(txn[t].items, stock)
        /\ handleEsewaSuccessWrite(t, poll))
       => /\ txn'[t] = Done("handleEsewaSuccess", 500)
          /\ UNCHANGED <<stock, cart, orders>>]_vars

\* a confirmation was rolled back for the second line (B sold out) although
\* the first line had enough: the order is still PENDING/PENDING without
\* gateway fields, A's stock is full and the cart holds both lines
C19_Witness ==
  \E t \in DOMAIN txn :
    /\ txn[t] = Done("handleEsewaSuccess", 500)
    /\ orders[1].items = InitCart
    /\ PendingPending(1)
    /\ orders[1].esewaTransactionCode = None
    /\ orders[1].esewaSignature = <<None, <<>>>>
    /\ stock["A"] = MaxStock
    /\ stock["B"] = 0
    /\ cart[orders[1].user] = InitCart

\* C20: when the reconciliation poll answers COMPLETE for a PENDING/PENDING
\* gateway order whose lines are all in stock, checkPaymentStatus leaves the
\* state the success callback would have produced: the order PAID/CONFIRMED,
\* every ordered product's stock decremented by its quantity, and the
\* customer's cart empty.
C20_PollMapsLikeCallback ==
  [][\A id \in 1..Len(orders) :
       (/\ orders[id].paymentMethod = "ESEWA"
        /\ PendingPending(id)
        /\ ~SomeLineShort(orders[id].items, stock)
        /\ checkPaymentStatus(id, "COMPLETE"))
       => /\ orders'[id].paymentStatus = "PAID"
          /\ orders'[id].orderStatus = "CONFIRMED"
          /\ stock' = DecrementLoop(stock, orders[id].items, 0).view
          /\ cart'[orders[id].user] = <<>>]_vars

\* C21: when the gateway's status call fails or times out, and when the order
\* is a cash order, checkPaymentStatus answers with the paymentStatus and
\* orderStatus the order already had and changes no order, stock or cart.
C21_PollFailureTolerated ==
  /\ [](\A id \in 1..Len(orders), poll \in PollOutcomes :
          (poll = "THROW" \/ orders[id].paymentMethod = "CASH_ON_DELIVERY")
          => /\ checkPaymentStatusResponse(id, poll).paymentStatus = orders[id].paymentStatus
             /\ checkPaymentStatusResponse(id, poll).orderStatus = orders[id].orderStatus
             /\ checkPaymentStatusResponse(id, poll).message # "Payment status checked")
  /\ [][\A id \in 1..Len(orders), poll \in PollOutcomes :
          (/\ poll = "THROW" \/ orders[id].paymentMethod = "CASH_ON_DELIVERY"
           /\ checkPaymentStatus(id, poll))
          => UNCHANGED <<orders, stock, cart>>]_vars

\* an unpaid gateway order with a correlation id, for which a status check
\* whose gateway call fails is taken and answered from the stored order
C21_Witness ==
  \E id \in 1..Len(orders) :
    /\ IsGateway(orders[id])
    /\ orders[id].esewaTransactionUuid # 0
    /\ PendingPending(id)
    /\ ENABLED checkPaymentStatus(id, "THROW")
    /\ checkPaymentStatusResponse(id, "THROW") =
         [message |-> "Unable to check payment status",
          paymentStatus |-> "PENDING", orderStatus |-> "PENDING"]

\* C22: an accepted updateOrderStatus writes the requested order status and,
\* in the same write, paymentStatus PAID when a cash order is set DELIVERED,
\* paymentStatus FAILED when an order whose payment is PENDING is set
\* CANCELLED, and the old paymentStatus otherwise; a requested status outside
\* validStatuses changes nothing.
C22_StatusUpdatePaymentRule ==
  [][\A id \in 1..Len(orders), st \in RequestedStatuses :
       updateOrderStatus(id, st)
       => IF st \notin validStatuses THEN UNCHANGED <<orders, stock, cart>>
          ELSE /\ orders'[id].orderStatus = st
               /\ orders'[id].paymentStatus =
                    (IF orders[id].paymentMethod = "CASH_ON_DELIVERY" /\ st = "DELIVERED"
                       THEN "PAID"
                     ELSE IF st = "CANCELLED" /\ orders[id].paymentStatus = "PENDING"
                       THEN "FAILED"
                     ELSE orders[id].paymentStatus)
               /\ UNCHANGED <<stock, cart>>]_vars

\* a cash order that was set DELIVERED and thereby PAID
C22_Witness ==
  \E id \in 1..Len(orders) :
    /\ orders[id].paymentMethod = "CASH_ON_DELIVERY"
    /\ orders[id].orderStatus = "DELIVERED"
    /\ orders[id].paymentStatus = "PAID"

\* C23: setting a CONFIRMED cash order CANCELLED gives its stock back: every
\* product's stock grows by the quantity the order holds of it.
C23_CashCancellationReleasesStock ==
  [][\A id \in 1..Len(orders) :
       (/\ orders[id].paymentMethod = "CASH_ON_DELIVERY"
        /\ orders[id].orderStatus = "CONFIRMED"
        /\ updateOrderStatus(id, "CANCELLED"))
       => \A p \in Products : stock'[p] = stock[p] + SumQty(orders[id].items, p)]_vars

\* C24: verifyEsewaSignature joins field=value pairs in the order the
\* callback's signed_field_names lists them: it answers true exactly for a
\* signature made with the shared secret over the message in the listed
\* order, whichever order that is.
C24_ListedOrderVerifies ==
  \A t \in DOMAIN txn :
    (txn[t].pc = "done" /\ txn[t].op = "verifyEsewaSignature")
    => (txn[t].res = 1 <=> txn[t].payload.signature = Hmac(SECRET_KEY, ListedMessage(txn[t].payload)))

\* C25: in every cart that addToCart, updateCartItem and removeFromCart
\* leave behind, each line has a quantity of at least 1 and no two lines are
\* for the same product.
C25_CartLinesWellFormed ==
  \A u \in DOMAIN cart :
    /\ \A i \in 1..Len(cart[u]) : cart[u][i].quantity >= 1
    /\ \A i, j \in 1..Len(cart[u]) : cart[u][i].product = cart[u][j].product => i = j

\* C26: a success callback whose commit leaves the order PAID/CONFIRMED
\* carried a total_amount equal to the grandTotal of the order found by its
\* correlation id.
C26_ConfirmedAmountMatches ==
  [][\A t \in DOMAIN txn :
       (/\ Commits(t)
        /\ txn[t].op = "handleEsewaSuccess"
        /\ orders'[txn[t].order].paymentStatus = "PAID"
        /\ orders'[txn[t].order].orderStatus = "CONFIRMED")
       => txn[t].payload.total_amount = orders[txn[t].order].grandTotal]_vars

\* an order that holds stock: a cash order, or a gateway order that is
\* PAID and CONFIRMED
HoldsStock(o) ==
  \/ o.paymentMethod = "CASH_ON_DELIVERY"
  \/ IsGateway(o) /\ o.paymentStatus = "PAID" /\ o.orderStatus = "CONFIRMED"

RECURSIVE HeldQty(_, _)
\* the quantity of product p in the first n orders that hold stock
HeldQty(n, p) ==
  IF n = 0 THEN 0
  ELSE (IF HoldsStock(orders[n]) THEN SumQty(orders[n].items, p) ELSE 0) + HeldQty(n - 1, p)

\* C27: stock conservation: for every product, what is missing from the
\* initial stock is the quantity of it in the orders that hold stock (cash
\* orders, and gateway orders PAID/CONFIRMED), each order counted once.
C27_StockConservation ==
  \A p \in Products : MaxStock - stock[p] = HeldQty(Len(orders), p)

\* C28: a handleEsewaSuccess invocation that commits a confirmation takes
\* each line's quantity off its product's stock once, also when a save of the
\* confirming branch threw and the catch block ran the loop again.
C28_DecrementedOncePerInvocation ==
  [][\A t \in DOMAIN txn :
       (/\ Commits(t)
        /\ txn[t].op = "handleEsewaSuccess"
        /\ txn[t].worder.paymentStatus = "PAID")
       => \A p \in Products : stock'[p] = stock[p] - SumQty(txn[t].items, p)]_vars

\* C29: of the gateway orders created from one cart before it was cleared,
\* at most one is PAID/CONFIRMED. (Under SpecResubmit the cart is only
\* cleared by a confirmation and never filled again, so every order there was
\* created from the same uncleared cart.)
C29_OneConfirmationPerCart ==
  \A i, j \in 1..Len(orders) :
    (/\ IsGateway(orders[i]) /\ IsGateway(orders[j])
     /\ orders[i].user = orders[j].user
     /\ orders[i].paymentStatus = "PAID" /\ orders[i].orderStatus = "CONFIRMED"
     /\ orders[j].paymentStatus = "PAID" /\ orders[j].orderStatus = "CONFIRMED")
    => i = j

\* C30: a request of createOrderFromCart, createOrder or handleEsewaSuccess
\* that is over has committed or aborted its transaction and ended its
\* session, on every path, and has not called abortTransaction on a
\* committed transaction.
C30_SessionAlwaysClosed ==
  \A t \in DOMAIN txn :
    txn[t].pc = "done"
    => /\ txn[t].session \in {"committed", "aborted"}
       /\ txn[t].ended
       /\ ~txn[t].misuse

====
